---- MODULE Spec2Model ----
(***************************************************************************)
(* A model of the assistant scheduler: Instance.load (format detection,    *)
(* load_json / load_yaml, semantic validation), make_program, the solve    *)
(* loop of main and the interpretation of the best model.                  *)
(*                                                                         *)
(* Strings that the program inspects character by character (prefs) are    *)
(* sequences of one-character strings.  A Python object reference          *)
(* (group.pred) is the position of the referenced Group in                 *)
(* instance.groups (1-based, 0 for None); the attribute index keeps the    *)
(* zero-based value the loader assigns.                                    *)
(***************************************************************************)
EXTENDS Integers, Sequences, FiniteSets, TLC

VARIABLES
    doc,         \* the parsed input document and the extension of its file name
    pc,          \* the position of main
    instance,    \* main's instance
    error,       \* the message given to the error callback
    program,     \* main's program
    hnd,         \* the solve handle: the models the solver has not yielded yet
    best_model,  \* main's best_model
    yielded,     \* history: the models yielded so far
    stop,        \* history: what ended the solve loop
    symbols,     \* history: best_model.symbols(atoms=True) as enumerated
    schedule,    \* the schedule lines printed
    penalties,   \* main's penalties, printed under "Inoptimalities:"
    cost_out,    \* the cost printed
    exit_code,   \* the exit status of the process
    saved,       \* the text of instance.json(), written to a file
    reloaded     \* what loading the saved file gives

vars == <<doc, pc, instance, error, program, hnd, best_model, yielded, stop, symbols,
          schedule, penalties, cost_out, exit_code, saved, reloaded>>

(***************************************************************************)
(* Bounds of the model.                                                    *)
(***************************************************************************)
\* number of single-field edits applied to a base document
MaxEdits == 1
\* number of models the solver yields in one run of the solve loop
MaxModels == 2
\* largest min / max value an edit writes into a document
MaxBound == 3

(***************************************************************************)
(* Generic helpers.                                                        *)
(***************************************************************************)
None == [none |-> TRUE]

Has(f, k) == k \in DOMAIN f

Put(f, k, v) == (k :> v) @@ f

Drop(f, k) == [x \in DOMAIN f \ {k} |-> f[x]]

RECURSIVE Flatten(_)
Flatten(ss) == IF ss = <<>> THEN <<>> ELSE Head(ss) \o Flatten(Tail(ss))

RECURSIVE SumSeq(_)
SumSeq(s) == IF s = <<>> THEN 0 ELSE Head(s) + SumSeq(Tail(s))

Range(s) == {s[i] : i \in DOMAIN s}

\* all orderings of a finite set, as sequences without repetition
RECURSIVE Perms(_)
Perms(S) == IF S = {} THEN {<<>>} ELSE UNION {{<<x>> \o p : p \in Perms(S \ {x})} : x \in S}

(***************************************************************************)
(* instance.py: constants and defaults.                                    *)
(***************************************************************************)
PREF_BAD == " "
PREF_OK == "1"
PREF_GOOD == "2"
PREF_CHARS == {PREF_BAD, PREF_OK, PREF_GOOD}

DefaultPenaltyBadTime == 1000
DefaultPenaltyOkTime == 100
DefaultPenaltyGoodTime == 0
DefaultPenaltyConsecutive == 10
DefaultMin == 1
DefaultMax == 1

\* the list "penalties" of load_json, load_yaml and load, in its order
PenaltyNames ==
    <<"penalty_bad_time", "penalty_ok_time", "penalty_good_time", "penalty_consecutive">>

NewInstanceFreeConsecutive ==
    [penalty_bad_time |-> DefaultPenaltyBadTime,
     penalty_ok_time |-> DefaultPenaltyOkTime,
     penalty_good_time |-> DefaultPenaltyGoodTime,
     penalty_consecutive |-> 0,
     groups |-> <<>>,
     assistants |-> <<>>]

\* Instance.__init__
NewInstance ==
    [penalty_bad_time |-> DefaultPenaltyBadTime,
     penalty_ok_time |-> DefaultPenaltyOkTime,
     penalty_good_time |-> DefaultPenaltyGoodTime,
     penalty_consecutive |-> DefaultPenaltyConsecutive,
     groups |-> <<>>,
     assistants |-> <<>>]

\* Group.__init__ followed by the __setattr__ loop over min, max, pred;
\* pred still holds the predecessor's name ("" for None)
NewGroup(name, index, fields) ==
    [name |-> name,
     index |-> index,
     min |-> IF Has(fields, "min") THEN fields["min"] ELSE DefaultMin,
     max |-> IF Has(fields, "max") THEN fields["max"] ELSE DefaultMax,
     pred |-> IF Has(fields, "pred") THEN fields["pred"] ELSE ""]

\* Assistant.__init__ followed by the __setattr__ loop over min, max
NewAssistant(name, index, fields) ==
    [name |-> name,
     index |-> index,
     prefs |-> fields["prefs"],
     min |-> IF Has(fields, "min") THEN fields["min"] ELSE DefaultMin,
     max |-> IF Has(fields, "max") THEN fields["max"] ELSE DefaultMax]

Err(kind, entity) == [ok |-> FALSE, error |-> [kind |-> kind, entity |-> entity]]

Ok(inst) == [ok |-> TRUE, instance |-> inst]

FirstError(errs) == Err(errs[1].kind, errs[1].entity)

E(kind, entity) == [kind |-> kind, entity |-> entity]

(***************************************************************************)
(* Parsed documents.  doc.groups and doc.assistants are the entries in     *)
(* the order of the text, each [name, fields]; fields is a function from   *)
(* the keys present to their values.                                       *)
(***************************************************************************)
\* json.load on an object: a dict keeps the position of a key's first
\* occurrence and the value of its last
DictKeys(pairs) ==
    LET first == {i \in DOMAIN pairs : \A j \in 1..(i - 1) : pairs[j].name # pairs[i].name}
    IN  SelectSeq([i \in DOMAIN pairs |-> IF i \in first THEN pairs[i].name ELSE ""],
                  LAMBDA n : n # "")

DictGet(pairs, name) ==
    LET last == CHOOSE i \in DOMAIN pairs :
                    /\ pairs[i].name = name
                    /\ \A j \in DOMAIN pairs : pairs[j].name = name => j <= i
    IN  pairs[last].fields

\* the loop "for attr in penalties: if attr in inp: setattr"
SetPenalties(inst, given) ==
    [inst EXCEPT
       !.penalty_bad_time = IF Has(given, "penalty_bad_time") THEN given["penalty_bad_time"] ELSE @,
       !.penalty_ok_time = IF Has(given, "penalty_ok_time") THEN given["penalty_ok_time"] ELSE @,
       !.penalty_good_time = IF Has(given, "penalty_good_time") THEN given["penalty_good_time"] ELSE @,
       !.penalty_consecutive = IF Has(given, "penalty_consecutive") THEN given["penalty_consecutive"] ELSE @]

\* the loop "for key in inp: if key not in penalties and key not in other_keys"
KeyErrors(d) == [i \in DOMAIN d.extra |-> E("invalid_key", d.extra[i])]

\* the group loop: one error per entry whose name was already registered
GroupTwiceErrors(entries) ==
    Flatten([i \in DOMAIN entries |->
        IF \E j \in 1..(i - 1) : entries[j].name = entries[i].name
        THEN <<E("group_twice", entries[i].name)>> ELSE <<>>])

\* the assistant loop over (name, fields) in iteration order
AssistantLoopErrors(entries) ==
    Flatten([i \in DOMAIN entries |->
        (IF \E j \in 1..(i - 1) : entries[j].name = entries[i].name
         THEN <<E("assistant_twice", entries[i].name)>> ELSE <<>>)
        \o
        (IF ~Has(entries[i].fields, "prefs")
         THEN <<E("no_prefs", entries[i].name)>> ELSE <<>>)])

\* group_name_to_index[name], as a position: the last entry registered under name
GroupNameToIndex(entries, name) ==
    CHOOSE i \in DOMAIN entries :
        /\ entries[i].name = name
        /\ \A j \in DOMAIN entries : entries[j].name = name => j <= i

\* "Link the predecessor groups": errors of the loop
PredErrors(entries) ==
    Flatten([i \in DOMAIN entries |->
        IF /\ Has(entries[i].fields, "pred")
           /\ ~\E j \in DOMAIN entries : entries[j].name = entries[i].fields["pred"]
        THEN <<E("pred_undefined", entries[i].name)>> ELSE <<>>])

\* "Link the predecessor groups": group.pred = instance.groups[...]
LinkPred(entries, g) ==
    [g EXCEPT !.pred = IF g.pred = "" THEN 0 ELSE GroupNameToIndex(entries, g.pred)]

BuildInstanceReversedIndex(d, gentries, aentries) ==
    LET base == SetPenalties(NewInstance, d.penalties)
        gs == [i \in DOMAIN gentries |->
                 LinkPred(gentries,
                          NewGroup(gentries[i].name, Len(gentries) - i, gentries[i].fields))]
        as == [i \in DOMAIN aentries |->
                 NewAssistant(aentries[i].name, i - 1, aentries[i].fields)]
    IN  [base EXCEPT !.groups = gs, !.assistants = as]

BuildInstance(d, gentries, aentries) ==
    LET base == SetPenalties(NewInstance, d.penalties)
        gs == [i \in DOMAIN gentries |->
                 LinkPred(gentries, NewGroup(gentries[i].name, i - 1, gentries[i].fields))]
        as == [i \in DOMAIN aentries |->
                 NewAssistant(aentries[i].name, i - 1, aentries[i].fields)]
    IN  [base EXCEPT !.groups = gs, !.assistants = as]

\* Instance.load_json: inp["assistants"] is a dict
load_json(d) ==
    LET names == DictKeys(d.assistants)
        aentries == [i \in DOMAIN names |->
                       [name |-> names[i], fields |-> DictGet(d.assistants, names[i])]]
        errs == KeyErrors(d) \o GroupTwiceErrors(d.groups)
                  \o AssistantLoopErrors(aentries) \o PredErrors(d.groups)
    IN  IF errs # <<>> THEN FirstError(errs) ELSE Ok(BuildInstance(d, d.groups, aentries))

\* Instance.load_yaml: inp["assistants"] is a list of singleton maps
load_yaml(d) ==
    LET errs == KeyErrors(d) \o GroupTwiceErrors(d.groups)
                  \o AssistantLoopErrors(d.assistants) \o PredErrors(d.groups)
    IN  IF errs # <<>> THEN FirstError(errs) ELSE Ok(BuildInstance(d, d.groups, d.assistants))

\* file_extensions and the detection loop of Instance.load
input_format(ext) ==
    IF ext \in {"json", "js", "jso"} THEN "JSON"
    ELSE IF ext \in {"yaml", "yml"} THEN "YAML"
    ELSE "None"

(***************************************************************************)
(* Instance.load: semantic validation.                                     *)
(***************************************************************************)
PenaltyOf(inst, name) ==
    CASE name = "penalty_bad_time" -> inst.penalty_bad_time
      [] name = "penalty_ok_time" -> inst.penalty_ok_time
      [] name = "penalty_good_time" -> inst.penalty_good_time
      [] name = "penalty_consecutive" -> inst.penalty_consecutive

PenaltyErrors(inst) ==
    Flatten([i \in DOMAIN PenaltyNames |->
        IF PenaltyOf(inst, PenaltyNames[i]) < 0
        THEN <<E("penalty_negative", PenaltyNames[i])>> ELSE <<>>])

\* "0 <= x.min <= x.max", for a group or an assistant
BoundsOkNoSign(x) == x.min <= x.max

BoundsOk(x) == 0 <= x.min /\ x.min <= x.max

GroupBoundErrors(inst) ==
    Flatten([i \in DOMAIN inst.groups |->
        IF ~BoundsOk(inst.groups[i])
        THEN <<E("group_bounds", inst.groups[i].name)>> ELSE <<>>])

PrefsLengthOkLoose(prefs, nof_groups) == Len(prefs) >= nof_groups

PrefsLengthOk(prefs, nof_groups) == Len(prefs) = nof_groups

\* one error per character of prefs outside PREF_CHARS
PrefCharErrors(a) ==
    Flatten([k \in DOMAIN a.prefs |->
        IF a.prefs[k] \notin PREF_CHARS
        THEN <<E("prefs_char", a.name)>> ELSE <<>>])

\* the body of "for assistant in instance.assistants"
AssistantErrors(inst) ==
    Flatten([i \in DOMAIN inst.assistants |->
        LET a == inst.assistants[i]
        IN  (IF ~BoundsOk(a) THEN <<E("assistant_bounds", a.name)>> ELSE <<>>)
            \o (IF ~PrefsLengthOk(a.prefs, Len(inst.groups))
                THEN <<E("prefs_length", a.name)>> ELSE <<>>)
            \o PrefCharErrors(a)])

min_personnel(inst) == SumSeq([i \in DOMAIN inst.groups |-> inst.groups[i].min])

max_personnel(inst) == SumSeq([i \in DOMAIN inst.groups |-> inst.groups[i].max])

min_available_personnel(inst) ==
    SumSeq([i \in DOMAIN inst.assistants |-> inst.assistants[i].min])

max_available_personnel(inst) ==
    SumSeq([i \in DOMAIN inst.assistants |-> inst.assistants[i].max])

AggregateErrorsOneSided(inst) ==
    IF max_available_personnel(inst) < min_personnel(inst)
    THEN <<E("not_enough_assistant_shifts", "")>> ELSE <<>>

AggregateErrors(inst) ==
    (IF max_available_personnel(inst) < min_personnel(inst)
     THEN <<E("not_enough_assistant_shifts", "")>> ELSE <<>>)
    \o (IF min_available_personnel(inst) > max_personnel(inst)
        THEN <<E("not_enough_group_shifts", "")>> ELSE <<>>)

validate(inst) ==
    LET errs == PenaltyErrors(inst) \o GroupBoundErrors(inst)
                  \o AssistantErrors(inst) \o AggregateErrors(inst)
    IN  IF errs # <<>> THEN FirstError(errs) ELSE Ok(inst)

\* Instance.load with an error callback that does not return (argp.error)
load(d) ==
    LET fmt == input_format(d.ext)
    IN  IF fmt = "None" THEN Err("unknown_format", d.ext)
        ELSE LET r == IF fmt = "JSON" THEN load_json(d) ELSE load_yaml(d)
             IN  IF r.ok THEN validate(r.instance) ELSE r

(***************************************************************************)
(* instance.py: Instance.json, Group.json, Assistant.json, and json.load   *)
(* on the text they produce.  The text is kept as its structure; a place   *)
(* where a value stands holds the characters written there and whether     *)
(* they are inside double quotes.                                          *)
(***************************************************************************)
Quoted(text) == [quoted |-> TRUE, text |-> text]

Bare(text) == [quoted |-> FALSE, text |-> text]

\* {"name": <name>, "min": <min>, "max": <max>[, "pred": "<pred.name>"]}
Group_json(inst, group) ==
    [name |-> Bare(group.name),
     min |-> group.min,
     max |-> group.max,
     pred |-> IF group.pred # 0 THEN <<Quoted(inst.groups[group.pred].name)>> ELSE <<>>]

\* "<name>": {"prefs": "<prefs>", "min": <min>, "max": <max>}
Assistant_json(assistant) ==
    [name |-> Quoted(assistant.name),
     prefs |-> Quoted(assistant.prefs),
     min |-> assistant.min,
     max |-> assistant.max]

Instance_json(inst) ==
    [penalty_bad_time |-> inst.penalty_bad_time,
     penalty_ok_time |-> inst.penalty_ok_time,
     penalty_good_time |-> inst.penalty_good_time,
     penalty_consecutive |-> inst.penalty_consecutive,
     groups |-> [k \in DOMAIN inst.groups |-> Group_json(inst, inst.groups[k])],
     assistants |-> [i \in DOMAIN inst.assistants |-> Assistant_json(inst.assistants[i])]]

\* the names of the documents that read as a JSON number when written bare
NumberTexts == {"7"}

\* the JSON decoder on the characters of a value: quoted characters are a
\* string, bare characters are a number if they spell one, and anything else
\* raises JSONDecodeError.  A number is kept apart from the string of its digits.
JsonValue(token) ==
    IF token.quoted THEN [ok |-> TRUE, value |-> token.text]
    ELSE IF token.text \in NumberTexts THEN [ok |-> TRUE, value |-> "number " \o token.text]
    ELSE [ok |-> FALSE, text |-> token.text]

\* json.load on the text of Instance.json, as a document of a .json file
json_load(text) ==
    LET bad == {k \in DOMAIN text.groups : ~JsonValue(text.groups[k].name).ok}
    IN  IF bad # {}
        THEN [ok |-> FALSE,
              text |-> text.groups[CHOOSE k \in bad : \A j \in bad : k <= j].name.text]
        ELSE [ok |-> TRUE,
              doc |->
                [ext |-> "json",
                 extra |-> <<>>,
                 penalties |-> [n \in Range(PenaltyNames) |-> text[n]],
                 groups |-> [k \in DOMAIN text.groups |->
                    LET g == text.groups[k]
                        bounds == [min |-> g.min, max |-> g.max]
                    IN  [name |-> JsonValue(g.name).value,
                         fields |-> IF g.pred = <<>> THEN bounds
                                    ELSE Put(bounds, "pred", JsonValue(g.pred[1]).value)]],
                 assistants |-> [i \in DOMAIN text.assistants |->
                    LET a == text.assistants[i]
                    IN  [name |-> JsonValue(a.name).value,
                         fields |-> [prefs |-> JsonValue(a.prefs).value,
                                     min |-> a.min, max |-> a.max]]]]]

\* Instance.load on the file that holds the text; an exception of the JSON
\* decoder is kept like an error, under the name of the exception
load_text(text) ==
    LET inp == json_load(text)
    IN  IF inp.ok THEN load(inp.doc) ELSE Err("JSONDecodeError", inp.text)

(***************************************************************************)
(* assistant_scheduler.py: make_program.  A statement of the program is a  *)
(* record; an atom in(a,g) is the pair <<a, g>> of the two indices that    *)
(* the statement's text contains.                                          *)
(***************************************************************************)
Stmt(kind, lo, index, hi, body, weight, terms) ==
    [kind |-> kind, lo |-> lo, index |-> index, hi |-> hi,
     body |-> body, weight |-> weight, terms |-> terms]

\* a(i).  and  group(i).
Fact(kind, index) == Stmt(kind, 0, index, 0, <<>>, 0, <<>>)

\* lo <= {in(index,G):group(G)} <= hi.   and   lo <= {in(A,index):a(A)} <= hi.
Card(kind, lo, index, hi) == Stmt(kind, lo, index, hi, <<>>, 0, <<>>)

\* :~ body. [ weight,terms ]
Weak(body, weight, terms) == Stmt("weak", 0, 0, 0, body, weight, terms)

in_atom(assistant, group) == <<assistant.index, group.index>>

\* the if / elif chain over pref
PrefPenalty(inst, pref) ==
    CASE pref = PREF_BAD -> inst.penalty_bad_time
      [] pref = PREF_OK -> inst.penalty_ok_time
      [] pref = PREF_GOOD -> inst.penalty_good_time

\* "for (index, group) in enumerate(instance.groups)": pref = prefs[index]
PrefStatements(inst, assistant) ==
    [k \in DOMAIN inst.groups |->
        Weak(<<in_atom(assistant, inst.groups[k])>>,
             PrefPenalty(inst, assistant.prefs[k]),
             <<in_atom(assistant, inst.groups[k])>>)]

ConsecutiveStatementShortTuple(inst, assistant, group) ==
    Weak(<<in_atom(assistant, inst.groups[group.pred]), in_atom(assistant, group)>>,
         inst.penalty_consecutive,
         <<in_atom(assistant, inst.groups[group.pred])>>)

\* :~ atom1, atom2. [ penalty_consecutive,atom1,atom2 ]
ConsecutiveStatement(inst, assistant, group) ==
    Weak(<<in_atom(assistant, inst.groups[group.pred]), in_atom(assistant, group)>>,
         inst.penalty_consecutive,
         <<in_atom(assistant, inst.groups[group.pred]), in_atom(assistant, group)>>)

ConsecutiveStatementsNone(inst, assistant) == <<>>

\* "for group in instance.groups: if group.pred"
ConsecutiveStatements(inst, assistant) ==
    Flatten([k \in DOMAIN inst.groups |->
        IF inst.groups[k].pred # 0
        THEN <<ConsecutiveStatement(inst, assistant, inst.groups[k])>> ELSE <<>>])

\* min <= {in(index,G):group(G)} <= max.
AssistantCard(assistant) ==
    Card("card_assistant", assistant.min, assistant.index, assistant.max)

GroupCardSwapped(group) == Card("card_group", 0, group.index, group.min)

\* min <= {in(A,index):a(A)} <= max.
GroupCard(group) == Card("card_group", group.min, group.index, group.max)

\* prefs[index] raises IndexError, or the else branch reaches "assert False"
ProgramRaises(inst) ==
    \E i \in DOMAIN inst.assistants :
        \E k \in DOMAIN inst.groups :
            \/ k > Len(inst.assistants[i].prefs)
            \/ inst.assistants[i].prefs[k] \notin PREF_CHARS

make_program(inst) ==
    [i \in DOMAIN inst.assistants |-> Fact("a", inst.assistants[i].index)]
    \o [k \in DOMAIN inst.groups |-> Fact("group", inst.groups[k].index)]
    \o Flatten([i \in DOMAIN inst.assistants |->
            <<AssistantCard(inst.assistants[i])>>
            \o PrefStatements(inst, inst.assistants[i])
            \o ConsecutiveStatements(inst, inst.assistants[i])])
    \o [k \in DOMAIN inst.groups |-> GroupCard(inst.groups[k])]

(***************************************************************************)
(* The logic solver on a program (clingo.add, ground, solve): the answer   *)
(* sets of the choice rules with bounds, and the cost of an answer set     *)
(* under the weak constraints.                                             *)
(***************************************************************************)
Statements(prog, kind) == {s \in Range(prog) : s.kind = kind}

\* the atoms a bounded choice rule ranges over
ChoiceAtoms(prog, s) ==
    IF s.kind = "card_assistant"
    THEN {<<s.index, g.index>> : g \in Statements(prog, "group")}
    ELSE {<<a.index, s.index>> : a \in Statements(prog, "a")}

CardStatements(prog) == Statements(prog, "card_assistant") \cup Statements(prog, "card_group")

Atoms(prog) == UNION {ChoiceAtoms(prog, s) : s \in CardStatements(prog)}

AnswerSets(prog) ==
    {M \in SUBSET Atoms(prog) :
        \A s \in CardStatements(prog) :
            LET n == Cardinality(M \cap ChoiceAtoms(prog, s))
            IN  s.lo <= n /\ n <= s.hi}

RECURSIVE SumWeights(_)
SumWeights(T) ==
    IF T = {} THEN 0
    ELSE LET t == CHOOSE x \in T : TRUE IN t.weight + SumWeights(T \ {t})

\* a weak constraint contributes its weight once per distinct tuple
\* (weight, terms) whose body holds in the answer set
Cost(prog, M) ==
    SumWeights({[weight |-> s.weight, terms |-> s.terms] :
                   s \in {w \in Statements(prog, "weak") : Range(w.body) \subseteq M}})

\* a clingo Model: symbols(atoms=True) restricted to in/2, and cost
Model(prog, M) == [atoms |-> M, cost |-> Cost(prog, M)]

(***************************************************************************)
(* main: keeping a best model.                                             *)
(***************************************************************************)
KeepLatest(best, model) == model

\* "if best_model is None or model.cost < best_model.cost: best_model = model"
KeepBest(best, model) == IF best = None \/ model.cost < best.cost THEN model ELSE best

(***************************************************************************)
(* main: interpreting the best model.                                      *)
(***************************************************************************)
\* schedule[group.index] after the loop over the atoms, as assistant positions
ScheduleOf(inst, atoms) ==
    [gi \in {inst.groups[k].index : k \in DOMAIN inst.groups} |->
        {a[1] + 1 : a \in {x \in atoms : inst.groups[x[2] + 1].index = gi}}]

PrefLine(kind, assistant, group) ==
    [kind |-> kind, assistant |-> assistant.name, pred |-> "", group |-> group.name]

ConsLine(assistant, pred, group) ==
    [kind |-> "consecutive", assistant |-> assistant.name, pred |-> pred.name,
     group |-> group.name]

PrefLinesOfAtomAll(inst, atom) ==
    LET assistant == inst.assistants[atom[1] + 1]
        group == inst.groups[atom[2] + 1]
        pref == assistant.prefs[group.index + 1]
    IN  IF pref = PREF_BAD THEN <<PrefLine("bad", assistant, group)>>
        ELSE IF pref = PREF_OK THEN <<PrefLine("ok", assistant, group)>>
        ELSE <<PrefLine("good", assistant, group)>>

\* the body of "for atom in best_model.symbols(atoms=True)" for an atom in(a,g)
PrefLinesOfAtom(inst, atom) ==
    LET assistant == inst.assistants[atom[1] + 1]
        group == inst.groups[atom[2] + 1]
        pref == assistant.prefs[group.index + 1]
    IN  IF pref = PREF_BAD THEN <<PrefLine("bad", assistant, group)>>
        ELSE IF pref = PREF_OK THEN <<PrefLine("ok", assistant, group)>>
        ELSE <<>>

\* the preference lines when the atoms are enumerated in the order given
PrefLinesReversed(inst, order) ==
    Flatten([n \in DOMAIN order |-> PrefLinesOfAtom(inst, order[Len(order) + 1 - n])])

PrefLines(inst, order) == Flatten([n \in DOMAIN order |-> PrefLinesOfAtom(inst, order[n])])

\* the assistants of schedule[group.pred.index] that are in schedule[group.index]
ConsMembers(inst, sched, group) ==
    sched[inst.groups[group.pred].index] \cap sched[group.index]

\* the consecutiveness lines of the groups at positions 1..k: groups in list
\* order, the assistants of one group in the iteration order of a set
RECURSIVE ConsLinesUpTo(_, _, _)
ConsLinesUpTo(inst, sched, k) ==
    IF k = 0 THEN {<<>>}
    ELSE LET group == inst.groups[k]
             mine == IF group.pred = 0 THEN {<<>>}
                     ELSE {[n \in DOMAIN p |->
                              ConsLine(inst.assistants[p[n]], inst.groups[group.pred], group)] :
                           p \in Perms(ConsMembers(inst, sched, group))}
         IN  {s \o t : s \in ConsLinesUpTo(inst, sched, k - 1), t \in mine}

\* " G: a, b" with the names sorted: the set of names is what is displayed
ScheduleNames(inst, sched) ==
    [k \in DOMAIN inst.groups |->
        [group |-> inst.groups[k].name,
         personnel |-> {inst.assistants[a].name : a \in sched[inst.groups[k].index]}]]

(***************************************************************************)
(* Input documents: the base documents and what MaxEdits single edits      *)
(* make of them.                                                           *)
(***************************************************************************)
Entry(name, fields) == [name |-> name, fields |-> fields]

\* two groups, G2 after G1, two assistants, default penalties
ScenarioDoc ==
    [ext |-> "json", extra |-> <<>>, penalties |-> <<>>,
     groups |-> <<Entry("G1", [min |-> 1, max |-> 2]),
                  Entry("G2", [min |-> 1, max |-> 2, pred |-> "G1"])>>,
     assistants |-> <<Entry("A1", [prefs |-> <<"2", "1">>, min |-> 1, max |-> 2]),
                      Entry("A2", [prefs |-> <<"1", "2">>, min |-> 1, max |-> 1])>>]

\* three groups, two of them after G1; the penalty of a good time equals
\* the penalty of consecutive groups
SharedPredDoc ==
    [ext |-> "yaml", extra |-> <<>>,
     penalties |-> [penalty_bad_time |-> 5, penalty_ok_time |-> 3,
                    penalty_good_time |-> 1, penalty_consecutive |-> 1],
     groups |-> <<Entry("G1", <<>>),
                  Entry("G2", [pred |-> "G1"]),
                  Entry("G3", [pred |-> "G1"])>>,
     assistants |-> <<Entry("A1", [prefs |-> <<"2", " ", "1">>, min |-> 0, max |-> 3]),
                      Entry("A2", [prefs |-> <<"1", "2", "2">>, max |-> 2])>>]

\* one group that needs two assistants, one assistant who may take two shifts
PigeonholeDoc ==
    [ext |-> "yml", extra |-> <<>>, penalties |-> <<>>,
     groups |-> <<Entry("G1", [min |-> 2, max |-> 2])>>,
     assistants |-> <<Entry("A1", [prefs |-> <<"2">>, min |-> 0, max |-> 2])>>]

BaseDocs == {ScenarioDoc, SharedPredDoc, PigeonholeDoc}

\* no group, one assistant without shifts
NoGroupsDoc ==
    [ext |-> "json", extra |-> <<>>, penalties |-> [penalty_ok_time |-> 4],
     groups |-> <<>>,
     assistants |-> <<Entry("A1", [prefs |-> <<>>, min |-> 0, max |-> 0])>>]

\* one group whose name is a string of digits
DigitNameDoc ==
    [ext |-> "json", extra |-> <<>>, penalties |-> <<>>,
     groups |-> <<Entry("7", <<>>)>>,
     assistants |-> <<Entry("A1", [prefs |-> <<"1">>])>>]

RoundTripBaseDocs == BaseDocs \cup {NoGroupsDoc, DigitNameDoc}

\* one group, two assistants that each can cover it alone
TwinsDoc ==
    [ext |-> "json", extra |-> <<>>, penalties |-> <<>>,
     groups |-> <<Entry("G1", [max |-> 2])>>,
     assistants |-> <<Entry("A1", [prefs |-> <<"2">>]),
                      Entry("A2", [prefs |-> <<"1">>])>>]

ExtChoices == {"json", "yaml", "txt"}
PenaltyChoices == {-1, 0, 4}
BoundChoices == (-1)..MaxBound
PrefChoices == PREF_CHARS \cup {"x"}
GroupNamePool == <<"G1", "G2", "G3", "G4">>
AssistantNamePool == <<"A1", "A2", "A3">>

EntryNames(entries) == {entries[i].name : i \in DOMAIN entries}

\* the first name of the pool that no entry has (the last one if all are taken)
FreshName(pool, entries) ==
    LET free == {i \in DOMAIN pool : pool[i] \notin EntryNames(entries)}
    IN  IF free = {} THEN pool[Len(pool)]
        ELSE pool[CHOOSE i \in free : \A j \in free : i <= j]

EditTop(d) ==
    {[d EXCEPT !.ext = e] : e \in ExtChoices}
    \cup {[d EXCEPT !.extra = <<"penalty">>]}
    \cup {[d EXCEPT !.penalties = Put(@, p, v)] : p \in Range(PenaltyNames), v \in PenaltyChoices}

EditGroups(d) ==
    UNION {
        {[d EXCEPT !.groups[i].fields = Put(@, k, v)] : k \in {"min", "max"}, v \in BoundChoices}
        \cup {[d EXCEPT !.groups[i].fields = Put(@, "pred", n)] :
                 n \in EntryNames(d.groups) \cup {"GX"}}
        \cup {[d EXCEPT !.groups[i].fields = Drop(@, "pred")]}
        \cup {[d EXCEPT !.groups[i].name = n] : n \in EntryNames(d.groups)}
        : i \in DOMAIN d.groups}
    \cup {[d EXCEPT !.groups = Append(@, Entry(FreshName(GroupNamePool, d.groups), <<>>))]}
    \cup (IF d.groups = <<>> THEN {}
          ELSE {[d EXCEPT !.groups = SubSeq(@, 1, Len(@) - 1)]})

EditAssistants(d) ==
    UNION {
        {[d EXCEPT !.assistants[i].fields = Put(@, k, v)] : k \in {"min", "max"}, v \in BoundChoices}
        \cup (IF Has(d.assistants[i].fields, "prefs")
              THEN LET prefs == d.assistants[i].fields["prefs"]
                   IN  {[d EXCEPT !.assistants[i].fields =
                            Put(@, "prefs", [prefs EXCEPT ![k] = c])] :
                        k \in DOMAIN prefs, c \in PrefChoices}
                       \cup {[d EXCEPT !.assistants[i].fields =
                                Put(@, "prefs", Append(prefs, PREF_GOOD))]}
                       \cup (IF prefs = <<>> THEN {}
                             ELSE {[d EXCEPT !.assistants[i].fields =
                                      Put(@, "prefs", SubSeq(prefs, 1, Len(prefs) - 1))]})
                       \cup {[d EXCEPT !.assistants[i].fields = Drop(@, "prefs")]}
              ELSE {})
        \cup {[d EXCEPT !.assistants[i].name = n] : n \in EntryNames(d.assistants)}
        : i \in DOMAIN d.assistants}
    \cup {[d EXCEPT !.assistants =
              Append(@, Entry(FreshName(AssistantNamePool, d.assistants),
                              [prefs |-> [k \in DOMAIN d.groups |-> PREF_GOOD]]))]}
    \cup (IF d.assistants = <<>> THEN {}
          ELSE {[d EXCEPT !.assistants = SubSeq(@, 1, Len(@) - 1)]})

Edits(d) == EditTop(d) \cup EditGroups(d) \cup EditAssistants(d)

RECURSIVE DocsWithin(_)
DocsWithin(n) ==
    IF n = 0 THEN BaseDocs
    ELSE LET prev == DocsWithin(n - 1) IN prev \cup UNION {Edits(d) : d \in prev}

\* the documents within MaxEdits edits, the single edits of a base
\* document with one more top-level edit (a second fault ahead of the first),
\* and the single edits of the document with two interchangeable assistants
Docs ==
    DocsWithin(MaxEdits)
    \cup UNION {EditTop(d) : d \in UNION {Edits(b) : b \in BaseDocs}}
    \cup {TwinsDoc} \cup Edits(TwinsDoc)

(***************************************************************************)
(* The program run: main.                                                  *)
(***************************************************************************)
\* exit status of ArgumentParser.error, of an uncaught exception, of a normal end
ExitUsage == 2
ExitException == 1
ExitNormal == 0
Running == -1

InitWith(docs) ==
    /\ doc \in docs
    /\ pc = "load"
    /\ instance = None
    /\ error = None
    /\ program = <<>>
    /\ hnd = {}
    /\ best_model = None
    /\ yielded = {}
    /\ stop = ""
    /\ symbols = <<>>
    /\ schedule = <<>>
    /\ penalties = <<>>
    /\ cost_out = None
    /\ exit_code = Running
    /\ saved = None
    /\ reloaded = None

\* instance = Instance.load(args.input, argp.error)
Load ==
    /\ pc = "load"
    /\ LET r == load(doc)
       IN  IF r.ok
           THEN /\ instance' = r.instance
                /\ pc' = "encode"
                /\ UNCHANGED <<error, exit_code>>
           ELSE /\ error' = r.error
                /\ exit_code' = ExitUsage
                /\ pc' = "exit"
                /\ UNCHANGED instance
    /\ UNCHANGED <<doc, program, hnd, best_model, yielded, stop, symbols, schedule,
                   penalties, cost_out, saved, reloaded>>

\* program = make_program(instance); clingo.add; clingo.ground; clingo.solve
MakeProgram ==
    /\ pc = "encode"
    /\ IF ProgramRaises(instance)
       THEN /\ pc' = "exit"
            /\ exit_code' = ExitException
            /\ UNCHANGED <<program, hnd>>
       ELSE /\ program' = make_program(instance)
            /\ hnd' = {Model(program', M) : M \in AnswerSets(program')}
            /\ pc' = "solve"
            /\ UNCHANGED exit_code
    /\ UNCHANGED <<doc, instance, error, best_model, yielded, stop, symbols, schedule,
                   penalties, cost_out, saved, reloaded>>

\* hnd.wait(args.time_limit) returns False
SolveTimeout ==
    /\ pc = "solve"
    /\ pc' = "interpret"
    /\ stop' = "timeout"
    /\ UNCHANGED <<doc, instance, error, program, hnd, best_model, yielded, symbols,
                   schedule, penalties, cost_out, exit_code, saved, reloaded>>

\* result.satisfiable and hnd.model() is a model: one pass of the loop body
SolveModel ==
    /\ pc = "solve"
    /\ Cardinality(yielded) < MaxModels
    /\ \E model \in hnd :
          /\ best_model' = KeepBest(best_model, model)
          /\ yielded' = yielded \cup {model}
          /\ hnd' = hnd \ {model}
    /\ UNCHANGED <<doc, pc, instance, error, program, stop, symbols, schedule, penalties,
                   cost_out, exit_code, saved, reloaded>>

\* result.satisfiable and hnd.model() is None: the search is over
SolveExhausted ==
    /\ pc = "solve"
    /\ yielded # {}
    /\ pc' = "interpret"
    /\ stop' = "exhausted"
    /\ UNCHANGED <<doc, instance, error, program, hnd, best_model, yielded, symbols,
                   schedule, penalties, cost_out, exit_code, saved, reloaded>>

\* not result.satisfiable
SolveUnsat ==
    /\ pc = "solve"
    /\ hnd = {}
    /\ yielded = {}
    /\ pc' = "interpret"
    /\ stop' = "unsat"
    /\ UNCHANGED <<doc, instance, error, program, hnd, best_model, yielded, symbols,
                   schedule, penalties, cost_out, exit_code, saved, reloaded>>

\* "Interpret the best model" to the end of main
Interpret ==
    /\ pc = "interpret"
    /\ IF best_model = None
       THEN \* best_model.symbols raises AttributeError
            /\ pc' = "exit"
            /\ exit_code' = ExitException
            /\ UNCHANGED <<symbols, schedule, penalties, cost_out>>
       ELSE LET sched == ScheduleOf(instance, best_model.atoms)
            IN  /\ \E order \in Perms(best_model.atoms) :
                      \E cons \in ConsLinesUpTo(instance, sched, Len(instance.groups)) :
                          /\ symbols' = order
                          /\ penalties' = PrefLines(instance, order) \o cons
                /\ schedule' = ScheduleNames(instance, sched)
                /\ cost_out' = best_model.cost
                /\ pc' = "done"
                /\ exit_code' = ExitNormal
    /\ UNCHANGED <<doc, instance, error, program, hnd, best_model, yielded, stop, saved,
                   reloaded>>

\* print(instance): the text of instance.json() goes to a file
Serialize ==
    /\ pc = "encode"
    /\ saved' = Instance_json(instance)
    /\ pc' = "saved"
    /\ UNCHANGED <<doc, instance, error, program, hnd, best_model, yielded, stop, symbols,
                   schedule, penalties, cost_out, exit_code, reloaded>>

\* Instance.load on the file written by Serialize
Reload ==
    /\ pc = "saved"
    /\ reloaded' = load_text(saved)
    /\ pc' = "reloaded"
    /\ UNCHANGED <<doc, instance, error, program, hnd, best_model, yielded, stop, symbols,
                   schedule, penalties, cost_out, exit_code, saved>>

\* the whole run, on the base documents and their single edits
Init == InitWith(BaseDocs \cup UNION {Edits(d) : d \in BaseDocs})

Next ==
    \/ Load
    \/ MakeProgram
    \/ SolveTimeout
    \/ SolveModel
    \/ SolveExhausted
    \/ SolveUnsat
    \/ Interpret

Spec == Init /\ [][Next]_vars

\* loading and encoding alone, on the documents within MaxEdits edits
InitLoad == InitWith(Docs)

NextLoad ==
    \/ Load
    \/ MakeProgram

SpecLoad == InitLoad /\ [][NextLoad]_vars

\* loading, writing the instance out and loading what was written
InitRoundTrip == InitWith(RoundTripBaseDocs \cup UNION {Edits(d) : d \in RoundTripBaseDocs})

NextRoundTrip ==
    \/ Load
    \/ Serialize
    \/ Reload

SpecRoundTrip == InitRoundTrip /\ [][NextRoundTrip]_vars

(***************************************************************************)
(* Properties.                                                             *)
(***************************************************************************)
Names(entities) == {entities[i].name : i \in DOMAIN entities}

\* the load-time invariants of an Instance, stated on the Instance
LoadInvariants(inst) ==
    /\ Cardinality(Names(inst.groups)) = Len(inst.groups)
    /\ Cardinality(Names(inst.assistants)) = Len(inst.assistants)
    /\ \A k \in DOMAIN inst.groups : inst.groups[k].pred \in 0..Len(inst.groups)
    /\ \A k \in DOMAIN doc.groups :
          IF Has(doc.groups[k].fields, "pred")
          THEN /\ inst.groups[k].pred # 0
               /\ inst.groups[inst.groups[k].pred].name = doc.groups[k].fields["pred"]
          ELSE inst.groups[k].pred = 0
    /\ inst.penalty_bad_time >= 0
    /\ inst.penalty_ok_time >= 0
    /\ inst.penalty_good_time >= 0
    /\ inst.penalty_consecutive >= 0
    /\ \A k \in DOMAIN inst.groups :
          0 <= inst.groups[k].min /\ inst.groups[k].min <= inst.groups[k].max
    /\ \A i \in DOMAIN inst.assistants :
          /\ 0 <= inst.assistants[i].min
          /\ inst.assistants[i].min <= inst.assistants[i].max
          /\ Len(inst.assistants[i].prefs) = Len(inst.groups)
          /\ Range(inst.assistants[i].prefs) \subseteq {" ", "1", "2"}
    /\ SumSeq([k \in DOMAIN inst.groups |-> inst.groups[k].max])
          >= SumSeq([i \in DOMAIN inst.assistants |-> inst.assistants[i].min])
    /\ SumSeq([i \in DOMAIN inst.assistants |-> inst.assistants[i].max])
          >= SumSeq([k \in DOMAIN inst.groups |-> inst.groups[k].min])

LinksOfAssistant(atoms, assistant) == Cardinality({x \in atoms : x[1] = assistant.index})

LinksOfGroup(atoms, group) == Cardinality({x \in atoms : x[2] = group.index})

WithinBounds(inst, atoms) ==
    /\ \A i \in DOMAIN inst.assistants :
          /\ inst.assistants[i].min <= LinksOfAssistant(atoms, inst.assistants[i])
          /\ LinksOfAssistant(atoms, inst.assistants[i]) <= inst.assistants[i].max
    /\ \A k \in DOMAIN inst.groups :
          /\ inst.groups[k].min <= LinksOfGroup(atoms, inst.groups[k])
          /\ LinksOfGroup(atoms, inst.groups[k]) <= inst.groups[k].max

\* C2: in every assignment the solver has for the program of make_program,
\* each assistant is linked to between min and max groups and each group to
\* between min and max assistants.
C2_CardinalityBounds ==
    /\ \A m \in hnd \cup yielded : WithinBounds(instance, m.atoms)
    /\ best_model # None => WithinBounds(instance, best_model.atoms)

\* a model was accepted in which a group has two assistants and another assistant
\* or group is at its lower bound
C2_Witness ==
    /\ pc = "done"
    /\ best_model # None
    /\ \E k \in DOMAIN instance.groups :
          /\ LinksOfGroup(best_model.atoms, instance.groups[k]) = 2
          /\ instance.groups[k].max = 2
    /\ \E i \in DOMAIN instance.assistants :
          /\ LinksOfAssistant(best_model.atoms, instance.assistants[i]) = instance.assistants[i].min
          /\ instance.assistants[i].min < instance.assistants[i].max

\* the assigned pairs (assistant position, group position) of a set of atoms
Pairs(inst, atoms) ==
    {<<i, k>> \in (DOMAIN inst.assistants) \X (DOMAIN inst.groups) :
        <<inst.assistants[i].index, inst.groups[k].index>> \in atoms}

PairsWith(inst, atoms, symbol) ==
    {p \in Pairs(inst, atoms) : inst.assistants[p[1]].prefs[p[2]] = symbol}

\* (assistant, group with a predecessor) with the assistant linked to both
Consecutive(inst, atoms) ==
    {p \in Pairs(inst, atoms) :
        /\ inst.groups[p[2]].pred # 0
        /\ <<p[1], inst.groups[p[2]].pred>> \in Pairs(inst, atoms)}

ClaimedCost(inst, atoms) ==
    inst.penalty_bad_time * Cardinality(PairsWith(inst, atoms, " "))
    + inst.penalty_ok_time * Cardinality(PairsWith(inst, atoms, "1"))
    + inst.penalty_good_time * Cardinality(PairsWith(inst, atoms, "2"))
    + inst.penalty_consecutive * Cardinality(Consecutive(inst, atoms))

\* C3: the cost of every accepted assignment, and the cost printed, is the sum
\* of the preference penalties of the assigned pairs and of
\* penalty_consecutive for each (assistant, group with a predecessor) linked
\* to both the predecessor and the group.
C3_CostFormula ==
    /\ \A m \in hnd \cup yielded : m.cost = ClaimedCost(instance, m.atoms)
    /\ pc = "done" => cost_out = ClaimedCost(instance, best_model.atoms)

\* the cost of an assignment was printed for an instance where a group is its
\* own predecessor and two groups share a predecessor, with one assistant
\* linked to all of them
C3_Witness ==
    /\ pc = "done"
    /\ \E k \in DOMAIN instance.groups : instance.groups[k].pred = k
    /\ \E k1, k2 \in DOMAIN instance.groups :
          k1 # k2 /\ instance.groups[k1].pred # 0
                  /\ instance.groups[k1].pred = instance.groups[k2].pred
    /\ Cardinality(Consecutive(instance, best_model.atoms)) >= 3
    /\ cost_out > 0

\* C4 (as claimed): when the solve loop ends without a model, the run prints no
\* schedule and no explanatory list and ends normally with exit code 0.
C4_NoModelEndsNormally ==
    (pc \in {"exit", "done"} /\ stop # "" /\ best_model = None) =>
        /\ exit_code = ExitNormal
        /\ schedule = <<>>
        /\ penalties = <<>>

\* the assistants as the loader iterates them
LoadedAssistants(d) ==
    IF input_format(d.ext) = "JSON"
    THEN LET names == DictKeys(d.assistants)
         IN  [i \in DOMAIN names |->
                [name |-> names[i], fields |-> DictGet(d.assistants, names[i])]]
    ELSE d.assistants

\* the value of min or max of a document entry: 1 when the key is absent
FieldOr1(entry, key) == IF Has(entry.fields, key) THEN entry.fields[key] ELSE 1

DocSum(entries, key) == SumSeq([i \in DOMAIN entries |-> FieldOr1(entries[i], key)])

\* C5: Instance.load reports an error, and nothing is encoded or solved,
\* whenever the sum of assistant max is less than the sum of group min or the
\* sum of assistant min is greater than the sum of group max.
C5_AggregateRejected ==
    (/\ pc # "load"
     /\ \/ DocSum(LoadedAssistants(doc), "max") < DocSum(doc.groups, "min")
        \/ DocSum(LoadedAssistants(doc), "min") > DocSum(doc.groups, "max"))
    => /\ error # None
       /\ instance = None
       /\ program = <<>>
       /\ hnd = {}

\* every assistant has max = 0, a group has min > 0, and load reported that
\* there are not enough assistant shifts
C5_Witness ==
    /\ pc = "exit"
    /\ error # None
    /\ error.kind = "not_enough_assistant_shifts"
    /\ doc.assistants # <<>>
    /\ \A i \in DOMAIN doc.assistants : FieldOr1(doc.assistants[i], "max") = 0
    /\ \E k \in DOMAIN doc.groups : FieldOr1(doc.groups[k], "min") > 0

\* assistant i of the loaded assistants has a prefs of the wrong length
WrongLength(d, i) ==
    /\ Has(LoadedAssistants(d)[i].fields, "prefs")
    /\ Len(LoadedAssistants(d)[i].fields["prefs"]) # Len(d.groups)

BoundsHold(entry) ==
    0 <= FieldOr1(entry, "min") /\ FieldOr1(entry, "min") <= FieldOr1(entry, "max")

\* a rule that load checks before the length of the prefs of assistant i is
\* violated by the document
EarlierViolation(d, i) ==
    LET as == LoadedAssistants(d)
    IN  \/ d.ext \notin {"json", "js", "jso", "yaml", "yml"}
        \/ d.extra # <<>>
        \/ \E k1, k2 \in DOMAIN d.groups : k1 # k2 /\ d.groups[k1].name = d.groups[k2].name
        \/ \E j1, j2 \in DOMAIN as : j1 # j2 /\ as[j1].name = as[j2].name
        \/ \E j \in DOMAIN as : ~Has(as[j].fields, "prefs")
        \/ \E k \in DOMAIN d.groups :
              /\ Has(d.groups[k].fields, "pred")
              /\ d.groups[k].fields["pred"] \notin Names(d.groups)
        \/ \E n \in DOMAIN d.penalties : d.penalties[n] < 0
        \/ \E k \in DOMAIN d.groups : ~BoundsHold(d.groups[k])
        \/ \E j \in 1..(i - 1) :
              \/ ~BoundsHold(as[j])
              \/ Len(as[j].fields["prefs"]) # Len(d.groups)
              \/ \E c \in Range(as[j].fields["prefs"]) : c \notin {" ", "1", "2"}

\* C6 (as claimed): if any assistant's prefs has a length different from the
\* number of groups, load invokes the error callback with a message that
\* names that assistant, and no program is generated.
C6_Original ==
    pc # "load" =>
        \A i \in DOMAIN LoadedAssistants(doc) :
            WrongLength(doc, i) =>
                /\ error # None
                /\ error.entity = LoadedAssistants(doc)[i].name
                /\ program = <<>>

\* C6 (amended): if any assistant's prefs has a length different from the
\* number of groups, load invokes the error callback and no program is
\* generated; the message names that assistant when the document violates no
\* rule that load checks before that assistant's prefs length (otherwise the
\* message reports the earlier violation).
C6_WrongLengthRejected ==
    pc # "load" =>
        \A i \in DOMAIN LoadedAssistants(doc) :
            WrongLength(doc, i) =>
                /\ error # None
                /\ instance = None
                /\ program = <<>>
                /\ ~EarlierViolation(doc, i) =>
                      /\ error.entity = LoadedAssistants(doc)[i].name
                      /\ error.kind \in {"assistant_bounds", "prefs_length"}

\* load reported the wrong prefs length of the second assistant
C6_Witness ==
    /\ pc = "exit"
    /\ error # None
    /\ error.kind = "prefs_length"
    /\ Len(LoadedAssistants(doc)) >= 2
    /\ error.entity = LoadedAssistants(doc)[2].name
    /\ WrongLength(doc, 2)
    /\ program = <<>>

\* the explanatory line of an assigned pair, and of a consecutive pair
LineOfPair(inst, kind, p) ==
    [kind |-> kind, assistant |-> inst.assistants[p[1]].name, pred |-> "",
     group |-> inst.groups[p[2]].name]

LineOfConsecutive(inst, p) ==
    [kind |-> "consecutive", assistant |-> inst.assistants[p[1]].name,
     pred |-> inst.groups[inst.groups[p[2]].pred].name,
     group |-> inst.groups[p[2]].name]

Occurrences(seq, x) == Cardinality({n \in DOMAIN seq : seq[n] = x})

\* C7: the non-optimality list has exactly one line for each assigned pair
\* whose preference is BAD or OK, none for a pair whose preference is GOOD,
\* exactly one for each (assistant, group with predecessor) linked to both,
\* and no other line.
C7_ListContent ==
    pc = "done" =>
        LET atoms == best_model.atoms
            bad == {LineOfPair(instance, "bad", p) : p \in PairsWith(instance, atoms, " ")}
            ok == {LineOfPair(instance, "ok", p) : p \in PairsWith(instance, atoms, "1")}
            cons == {LineOfConsecutive(instance, p) : p \in Consecutive(instance, atoms)}
        IN  /\ \A l \in bad \cup ok \cup cons : Occurrences(penalties, l) = 1
            /\ Range(penalties) \subseteq bad \cup ok \cup cons
            /\ \A p \in PairsWith(instance, atoms, "2") :
                  \A n \in DOMAIN penalties :
                      penalties[n].kind = "consecutive"
                      \/ penalties[n].assistant # instance.assistants[p[1]].name
                      \/ penalties[n].group # instance.groups[p[2]].name

\* a list was produced for an assignment with a BAD pair, an OK pair, a GOOD
\* pair and an assistant in a group and its predecessor
C7_Witness ==
    /\ pc = "done"
    /\ PairsWith(instance, best_model.atoms, " ") # {}
    /\ PairsWith(instance, best_model.atoms, "1") # {}
    /\ PairsWith(instance, best_model.atoms, "2") # {}
    /\ Consecutive(instance, best_model.atoms) # {}
    /\ Len(penalties) >= 3

\* the index of the group a line names, and the place of a name in sorted order
GroupIndexOf(inst, line) ==
    inst.groups[CHOOSE k \in DOMAIN inst.groups : inst.groups[k].name = line.group].index

NameRank(name) == CHOOSE n \in DOMAIN AssistantNamePool : AssistantNamePool[n] = name

\* the place in the enumeration of the atom that a preference line explains
PlaceInSymbols(inst, line) ==
    CHOOSE n \in DOMAIN symbols :
        /\ inst.assistants[symbols[n][1] + 1].name = line.assistant
        /\ inst.groups[symbols[n][2] + 1].name = line.group

\* C8 (as claimed): whatever the enumeration order of the assignment,
\* preference lines come first, ordered by group index and then by assistant
\* name; the consecutiveness lines follow in group index order.
C8_Original ==
    pc = "done" =>
        \A m, n \in DOMAIN penalties :
            m < n =>
                IF penalties[m].kind = "consecutive"
                THEN /\ penalties[n].kind = "consecutive"
                     /\ GroupIndexOf(instance, penalties[m]) <= GroupIndexOf(instance, penalties[n])
                ELSE \/ penalties[n].kind = "consecutive"
                     \/ GroupIndexOf(instance, penalties[m]) < GroupIndexOf(instance, penalties[n])
                     \/ /\ GroupIndexOf(instance, penalties[m]) = GroupIndexOf(instance, penalties[n])
                        /\ NameRank(penalties[m].assistant) < NameRank(penalties[n].assistant)

\* C8 (amended): preference lines come first, in the order in which the
\* atoms of the assignment are enumerated; the consecutiveness lines follow
\* in group index order.
C8_ListOrder ==
    pc = "done" =>
        \A m, n \in DOMAIN penalties :
            m < n =>
                IF penalties[m].kind = "consecutive"
                THEN /\ penalties[n].kind = "consecutive"
                     /\ GroupIndexOf(instance, penalties[m]) <= GroupIndexOf(instance, penalties[n])
                ELSE \/ penalties[n].kind = "consecutive"
                     \/ PlaceInSymbols(instance, penalties[m]) < PlaceInSymbols(instance, penalties[n])

\* a list was printed whose preference lines are not in group index order,
\* followed by a consecutiveness line
C8_Witness ==
    /\ pc = "done"
    /\ \E m, n \in DOMAIN penalties :
          /\ m < n
          /\ penalties[m].kind # "consecutive"
          /\ penalties[n].kind # "consecutive"
          /\ GroupIndexOf(instance, penalties[m]) > GroupIndexOf(instance, penalties[n])
    /\ \E n \in DOMAIN penalties : penalties[n].kind = "consecutive"

\* C9: the solve loop runs only until the first timed-out wait, non-satisfiable
\* result or missing model; best_model is None exactly when no model was
\* yielded, and otherwise a yielded model of minimal cost among the yielded
\* ones; it is the model interpreted.
C9_BestModel ==
    /\ pc = "solve" => stop = ""
    /\ pc \in {"interpret", "done"} => stop \in {"timeout", "unsat", "exhausted"}
    /\ stop = "unsat" => yielded = {}
    /\ stop = "exhausted" => yielded # {}
    /\ best_model = None <=> yielded = {}
    /\ best_model # None =>
          /\ best_model \in yielded
          /\ \A m \in yielded : best_model.cost <= m.cost
    /\ pc = "done" =>
          /\ best_model # None
          /\ Range(symbols) = best_model.atoms
          /\ cost_out = best_model.cost
          /\ \A k \in DOMAIN instance.groups :
                schedule[k].personnel =
                    {instance.assistants[i].name :
                        i \in {j \in DOMAIN instance.assistants :
                                 <<instance.assistants[j].index, instance.groups[k].index>>
                                     \in best_model.atoms}}

\* the loop stopped at a timed-out wait after two models of different cost, and
\* the cheaper one was interpreted
C9_Witness ==
    /\ pc = "done"
    /\ stop = "timeout"
    /\ Cardinality(yielded) = 2
    /\ \E m \in yielded : m.cost > best_model.cost
    /\ cost_out = best_model.cost

\* C11 (as claimed): for every Instance that Instance.load returned, writing
\* instance.json() out and loading it again returns an Instance with the same
\* penalties, groups, assistants, bounds, preferences and predecessor links.
C11_RoundTrip ==
    pc = "reloaded" =>
        /\ reloaded.ok
        /\ reloaded.instance = instance

\* the reload returned an equal Instance: the instance has no group
RoundTripEqual ==
    /\ pc = "reloaded"
    /\ reloaded.ok
    /\ reloaded.instance = instance

\* the reload returned an Instance whose group name is a number
RoundTripNumberName ==
    /\ pc = "reloaded"
    /\ reloaded.ok
    /\ reloaded.instance # instance

\* the reload stopped in the JSON decoder
RoundTripDecodeError ==
    /\ pc = "reloaded"
    /\ ~reloaded.ok
    /\ reloaded.error.kind = "JSONDecodeError"

\* the scenario's atoms in(assistant,group) with the penalty of the
\* assistant's preference for the group: A1 has "21", A2 has "12", an ok time
\* costs 100 and a good time 0
ScenarioPairs == <<<<0, 0>>, <<0, 1>>, <<1, 0>>, <<1, 1>>>>

ScenarioPairPenalty == <<0, 100, 100, 0>>

ScenarioCost(atoms) ==
    10 + SumSeq([n \in DOMAIN ScenarioPairs |->
                   IF ScenarioPairs[n] \in atoms THEN ScenarioPairPenalty[n] ELSE 0])

Duplicated(entries) ==
    {entries[i].name : i \in {j \in DOMAIN entries :
                                 \E k \in DOMAIN entries : k # j /\ entries[k].name = entries[j].name}}

\* the file has a supported extension and only known top-level keys
Readable(d) == input_format(d.ext) # "None" /\ d.extra = <<>>

\* C13 (as claimed, for documents whose duplicate is the first rule they
\* violate): in both schemas a document with two groups of the same name or
\* two assistants of the same name makes the loader invoke the error callback
\* with a message that names the duplicated entity, and no Instance is
\* returned for a document that contains a duplicate name.
C13_DuplicateRejected ==
    (pc # "load" /\ Readable(doc)) =>
        /\ Duplicated(doc.groups) # {} =>
              /\ error # None
              /\ error.kind = "group_twice"
              /\ error.entity \in Duplicated(doc.groups)
        /\ (/\ Duplicated(doc.groups) = {}
            /\ Duplicated(doc.assistants) # {}
            /\ \A i \in DOMAIN doc.assistants : Has(doc.assistants[i].fields, "prefs")) =>
              /\ error # None
              /\ error.kind = "assistant_twice"
              /\ error.entity \in Duplicated(doc.assistants)
        /\ instance # None =>
              Duplicated(doc.groups) = {} /\ Duplicated(doc.assistants) = {}

\* the part of C13 that the loader keeps: duplicate groups in both schemas
\* and duplicate assistants in the list-of-singleton-maps schema
DuplicateRejectedWhereDetected ==
    (pc # "load" /\ Readable(doc)) =>
        /\ Duplicated(doc.groups) # {} =>
              /\ error # None
              /\ error.kind = "group_twice"
              /\ error.entity \in Duplicated(doc.groups)
        /\ (/\ input_format(doc.ext) = "YAML"
            /\ Duplicated(doc.groups) = {}
            /\ Duplicated(doc.assistants) # {}
            /\ \A i \in DOMAIN doc.assistants : Has(doc.assistants[i].fields, "prefs")) =>
              /\ error # None
              /\ error.kind = "assistant_twice"
              /\ error.entity \in Duplicated(doc.assistants)

\* a .json document with two assistants of one name was loaded and an
\* Instance was returned
DuplicateAccepted ==
    /\ instance # None
    /\ Duplicated(doc.assistants) # {}

\* the atom in(assistant,group) of the assistant and group at two positions
AtomOf(inst, i, k) == <<inst.assistants[i].index, inst.groups[k].index>>

\* the positions in the program of the soft constraints on the assistant at i
\* being linked to the predecessor of the group at k and to that group
ConsecutiveSoft(prog, inst, i, k) ==
    {n \in DOMAIN prog :
        /\ prog[n].kind = "weak"
        /\ prog[n].body = <<AtomOf(inst, i, inst.groups[k].pred), AtomOf(inst, i, k)>>}

\* every set of links between the assistants and the groups that keeps the
\* min and max of each assistant and each group
AssignmentsWithinBounds(inst) ==
    {M \in SUBSET {AtomOf(inst, i, k) : i \in DOMAIN inst.assistants, k \in DOMAIN inst.groups} :
        WithinBounds(inst, M)}

\* C14: for each assistant and each group with a predecessor the program has
\* exactly one soft constraint on the assistant being linked to both, of
\* weight penalty_consecutive, and there is no other soft constraint on two
\* links; the assignments the solver accepts are all those within the min and
\* max bounds, whatever the pred links and the penalties are.
C14_ConsecutiveSoftOnly ==
    program # <<>> =>
        /\ \A i \in DOMAIN instance.assistants :
              \A k \in DOMAIN instance.groups :
                  instance.groups[k].pred # 0 =>
                      /\ Cardinality(ConsecutiveSoft(program, instance, i, k)) = 1
                      /\ \A n \in ConsecutiveSoft(program, instance, i, k) :
                            program[n].weight = instance.penalty_consecutive
        /\ \A n \in DOMAIN program :
              (program[n].kind = "weak" /\ Len(program[n].body) # 1) =>
                  \E i \in DOMAIN instance.assistants :
                      \E k \in DOMAIN instance.groups :
                          /\ instance.groups[k].pred # 0
                          /\ n \in ConsecutiveSoft(program, instance, i, k)
        /\ \A n \in DOMAIN program :
              program[n].kind \in {"a", "group", "card_assistant", "card_group", "weak"}
        /\ (pc = "solve" /\ yielded = {}) =>
              {m.atoms : m \in hnd} = AssignmentsWithinBounds(instance)

\* the solver accepts an assignment that links an assistant to a group and to
\* its predecessor, at a positive penalty_consecutive, and another that does not
C14_Witness ==
    /\ pc = "solve"
    /\ yielded = {}
    /\ instance.penalty_consecutive > 0
    /\ \E k \in DOMAIN instance.groups :
          /\ instance.groups[k].pred \notin {0, k}
          /\ \E m \in hnd :
                {AtomOf(instance, 1, instance.groups[k].pred), AtomOf(instance, 1, k)}
                    \subseteq m.atoms
          /\ \E m \in hnd :
                ~({AtomOf(instance, 1, instance.groups[k].pred), AtomOf(instance, 1, k)}
                    \subseteq m.atoms)

\* the same penalties, groups and assistants written in the other schema
OtherSchema(d) ==
    [d EXCEPT !.ext = IF input_format(d.ext) = "JSON" THEN "yaml" ELSE "json"]

\* what load gave for doc is what load gives for the same content in the
\* other schema: an equal Instance, or an error for the same rule
AgreesWithOtherSchema ==
    LET other == load(OtherSchema(doc))
    IN  IF instance # None
        THEN other.ok /\ other.instance = instance
        ELSE /\ error # None
             /\ ~other.ok
             /\ other.error.kind = error.kind

\* C15 (as claimed): two documents with the same penalties, ordered groups
\* and ordered assistants, one in the map-of-named-objects schema and one in
\* the list-of-singleton-maps schema, are both loaded into equal Instances or
\* both rejected for the same violated rule.
C15_SchemasAgree ==
    (pc # "load" /\ input_format(doc.ext) # "None") => AgreesWithOtherSchema

\* the two schemas agree on every document whose assistants have pairwise
\* distinct names
SchemasAgreeOnDistinctNames ==
    (/\ pc # "load"
     /\ input_format(doc.ext) # "None"
     /\ Duplicated(doc.assistants) = {}) => AgreesWithOtherSchema

\* the place in the program of the preference statement that make_program
\* emits for the assistant at position i and the group at position k: after
\* the facts, in the block of the assistant, after its cardinality statement
PrefPosition(inst, i, k) ==
    LET with_pred == Cardinality({g \in DOMAIN inst.groups : inst.groups[g].pred # 0})
    IN  Len(inst.assistants) + Len(inst.groups)
        + (i - 1) * (1 + Len(inst.groups) + with_pred) + 1 + k

SymbolPenalty(inst, symbol) ==
    IF symbol = " " THEN inst.penalty_bad_time
    ELSE IF symbol = "1" THEN inst.penalty_ok_time
    ELSE inst.penalty_good_time

\* the preference lines of the list about a pair of names
LinesAbout(lines, kind, aname, gname) ==
    {n \in DOMAIN lines :
        lines[n].kind = kind /\ lines[n].assistant = aname /\ lines[n].group = gname}

\* C16: in every Instance that load returned, the index of a group or an
\* assistant is its zero-based position; the atom in(j,i) of the preference
\* statement that make_program emits for an assistant and a group decodes by
\* list position to that assistant and that group, the weight of the
\* statement is the penalty of the symbol the interpreter reads at
\* prefs[group.index], and the lines the interpreter prints follow the symbol
\* at the group's position.
C16_IndexIsPosition ==
    instance # None =>
        /\ \A k \in DOMAIN instance.groups : instance.groups[k].index = k - 1
        /\ \A i \in DOMAIN instance.assistants : instance.assistants[i].index = i - 1
        /\ program # <<>> =>
              \A i \in DOMAIN instance.assistants :
                  \A k \in DOMAIN instance.groups :
                      LET s == program[PrefPosition(instance, i, k)]
                          atom == s.body[1]
                          assistant == instance.assistants[atom[1] + 1]
                          group == instance.groups[atom[2] + 1]
                      IN  /\ s.kind = "weak"
                          /\ Len(s.body) = 1
                          /\ assistant = instance.assistants[i]
                          /\ group = instance.groups[k]
                          /\ assistant.prefs[group.index + 1] = instance.assistants[i].prefs[k]
                          /\ s.weight = SymbolPenalty(instance, assistant.prefs[group.index + 1])
        /\ pc = "done" =>
              \A i \in DOMAIN instance.assistants :
                  \A k \in DOMAIN instance.groups :
                      LET aname == instance.assistants[i].name
                          gname == instance.groups[k].name
                          symbol == instance.assistants[i].prefs[k]
                          linked == <<i - 1, k - 1>> \in best_model.atoms
                      IN  /\ (LinesAbout(penalties, "bad", aname, gname) # {})
                                <=> (linked /\ symbol = " ")
                          /\ (LinesAbout(penalties, "ok", aname, gname) # {})
                                <=> (linked /\ symbol = "1")

\* an assignment was interpreted in which an assistant whose preferences
\* differ between the groups is linked to a group that is not the first, at
\* a bad or ok time
C16_Witness ==
    /\ pc = "done"
    /\ \E i \in DOMAIN instance.assistants :
          \E k \in DOMAIN instance.groups :
              /\ k > 1
              /\ instance.assistants[i].prefs[k] # instance.assistants[i].prefs[1]
              /\ instance.assistants[i].prefs[k] \in {" ", "1"}
              /\ <<i - 1, k - 1>> \in best_model.atoms
              /\ LinesAbout(penalties, "bad", instance.assistants[i].name,
                            instance.groups[k].name)
                  \cup LinesAbout(penalties, "ok", instance.assistants[i].name,
                                  instance.groups[k].name) # {}

====
